---- MODULE Spec2Model ----
(***************************************************************************)
(* State-machine model of the plant-monitoring appliance:                  *)
(*   sample/server.py          the video pipeline, the capture loops       *)
(*                             (main, autoLook, single) and the run-state  *)
(*                             flags,                                      *)
(*   sample/slackbot_plugin.py the chat commands that drive them.          *)
(*                                                                         *)
(* Library behaviour the source relies on is modelled at the call site:    *)
(*   picamera  - PiCamera() fails while another instance holds the camera; *)
(*               stop_recording() stops the encoder, calls output.flush()  *)
(*               and re-raises an error met while recording;               *)
(*   ws4py     - the manager calls opened() on a websocket before it       *)
(*               registers it; broadcast() iterates over a snapshot of     *)
(*               the registry, skips terminated sockets and swallows the   *)
(*               errors of send();                                         *)
(*   threading - join() raises on a thread that was never started;         *)
(*   socketserver - shutdown() returns once serve_forever() has ended;     *)
(*   slackbot  - handlers run on a pool of worker threads, so a handler    *)
(*               blocked in server.main() does not stop later commands.    *)
(***************************************************************************)
EXTENDS Integers, Sequences, FiniteSets, TLC

\* ------------------------------------------------------------------ bounds
\* Chunks the transcoder emits in one run of python server.py.
MaxChunks == 2
\* Chunks the transcoder emits in one run started by a chat command.
MaxBotChunks == 1
\* Browser connections made in one run of the model.
MaxViewers == 2
\* Length of index.html (in template items) and of jsmpg.js (in characters).
MaxContentLen == 2
\* Clock values time() may return.
MaxTime == 2

\* ------------------------------------------------------- program constants
WIDTH == 640
HEIGHT == 480
SCORE_THRESHOLD_UNDER == 6
SCORE_THRESHOLD_UPPER == 10
JSMPEG_MAGIC == <<106, 115, 109, 112>>
WATER_COMMENT == "WATER_COMMENT"
NOT_WATER_COMMENT == "NOT_WATER_COMMENT"
LOOK_COMMENT == "LOOK_COMMENT"

\* Scores the inference collaborator may return, in tenths (5.0, 7.0, 7.1).
Scores == {50, 70, 71}
Viewers == 1..MaxViewers

VARIABLES
    entry,            \* "bot": imported by the plugin; "script": python server.py
    waterWork,        \* slackbot_plugin.waterWork
    notWaterWork,     \* slackbot_plugin.notWaterWork
    whileMove,        \* server.whileMove
    water,            \* server.water
    look,             \* server.look
    cameraOwner,      \* who holds the PiCamera: "none", "run", "single"
    resolution,       \* camera.resolution
    recording,        \* camera is recording into the BroadcastOutput
    recErr,           \* an output.write() failed while recording
    mode,             \* "none", "main", "autoLook": the continuous run in progress
    pc,               \* next statement of the run
    scorelist,        \* main's scorelist
    nowscore,         \* score of the iteration, in tenths
    sent,             \* comments passed to sendSlack in the current cycle
    websocket_thread, \* "none", "created", "running", "finished"
    http_thread,
    broadcast_thread,
    converter,        \* ffmpeg: "none", "running", "eof" (stdout closed), "exited"
    convHangs,        \* this ffmpeg does not exit when its stdin is closed
    convSize,         \* the -s argument given to ffmpeg
    stdinClosed,      \* converter.stdin.close() was called
    emitted,          \* chunks written by ffmpeg to its stdout so far
    pipe,             \* chunks in the stdout pipe, not yet read
    rpc,              \* BroadcastThread.run: "read", "poll", "bcast", "send"
    buf,              \* the chunk read last (0: empty read)
    todo,             \* websockets the current broadcast has still to send to
    readLog,          \* chunks read by BroadcastThread.run, in order
    stdoutClosed,     \* converter.stdout.close() was called
    websockets,       \* manager.websockets, in registration order
    vstate,           \* per viewer: "absent", "accepted", "opened", "registered",
                      \* "stalled" (registered, the peer no longer reads), "removed"
    sockBroken,       \* per viewer: the peer has closed the socket
    received,         \* per viewer: the messages written to its socket
    snapAt,           \* per viewer: broadcasts begun before it was registered
    failedAt,         \* per viewer: the chunk whose send first raised (0: none)
    events,           \* startup and cleanup steps of the current run, in order
    spc,              \* single(): "idle", "capture", "notify", "sleep"
    sClears,          \* times single() cleared the water flag in this cycle
    singleCalled,     \* a chat handler has called server.single()
    index_template,   \* StreamingHttpServer.index_template, as template items
    jsmpg_content,    \* StreamingHttpServer.jsmpg_content, as code points
    response          \* the request handled last by StreamingHttpHandler and
                      \* what was written for it: status, headers, body

chatVars == <<waterWork, notWaterWork>>
flagVars == <<whileMove, water, look>>
cameraVars == <<cameraOwner, resolution, recording, recErr>>
runVars == <<mode, pc, scorelist, nowscore, events>>
threadVars == <<websocket_thread, http_thread, broadcast_thread>>
convVars == <<converter, convHangs, convSize, stdinClosed, emitted, pipe>>
relayVars == <<rpc, buf, todo, readLog, stdoutClosed>>
viewerVars == <<websockets, vstate, sockBroken, received, snapAt, failedAt>>
singleVars == <<spc, sClears, singleCalled>>
webVars == <<index_template, jsmpg_content, response>>

vars == <<entry, chatVars, flagVars, cameraVars, runVars, sent, threadVars,
          convVars, relayVars, viewerVars, singleVars, webVars>>

\* ------------------------------------------------------------------- Init
\* Module state after import: server.py lines 177-179, slackbot_plugin.py 4-5.
InitCommon ==
    /\ waterWork = FALSE /\ notWaterWork = FALSE
    /\ whileMove = TRUE /\ water = FALSE /\ look = FALSE
    /\ cameraOwner = "none" /\ resolution = <<0, 0>>
    /\ recording = FALSE /\ recErr = FALSE
    /\ mode = "none"
    /\ scorelist = <<>> /\ nowscore = 0 /\ sent = <<>> /\ events = <<>>
    /\ websocket_thread = "none" /\ http_thread = "none" /\ broadcast_thread = "none"
    /\ converter = "none" /\ convHangs = FALSE /\ convSize = <<0, 0>>
    /\ stdinClosed = FALSE /\ emitted = 0 /\ pipe = <<>>
    /\ rpc = "read" /\ buf = 0 /\ todo = <<>> /\ readLog = <<>>
    /\ stdoutClosed = FALSE
    /\ websockets = <<>>
    /\ vstate = [v \in Viewers |-> "absent"]
    /\ sockBroken = [v \in Viewers |-> FALSE]
    /\ received = [v \in Viewers |-> <<>>]
    /\ snapAt = [v \in Viewers |-> 0]
    /\ failedAt = [v \in Viewers |-> 0]
    /\ spc = "idle" /\ sClears = 0 /\ singleCalled = FALSE

\* No request has been handled; where the pages served are not looked at,
\* the two files are empty.
NoResponse == [status |-> 0]

InitWeb ==
    /\ index_template = <<>> /\ jsmpg_content = <<>>
    /\ response = NoResponse

\* The plugin has imported server; no command has been handled yet.
Init == InitCommon /\ InitWeb /\ entry = "bot" /\ pc = "idle"

\* python server.py: __main__ is about to call main().
InitScript == InitCommon /\ InitWeb /\ entry = "script" /\ pc = "start"

\* ------------------------------------------------------------ run: startup
\* The part of the state a new run overwrites with fresh objects.
FreshRun(m) ==
    /\ mode' = m
    /\ scorelist' = <<>> /\ nowscore' = 0 /\ sent' = <<>>
    /\ recording' = FALSE /\ recErr' = FALSE
    /\ websocket_thread' = "none" /\ http_thread' = "none"
    /\ broadcast_thread' = "none"
    /\ converter' = "none" /\ convHangs' = FALSE /\ convSize' = <<0, 0>>
    /\ stdinClosed' = FALSE /\ emitted' = 0 /\ pipe' = <<>>
    /\ rpc' = "read" /\ buf' = 0 /\ todo' = <<>> /\ readLog' = <<>>
    /\ stdoutClosed' = FALSE
    /\ websockets' = <<>>
    /\ vstate' = [v \in Viewers |-> "absent"]
    /\ sockBroken' = [v \in Viewers |-> FALSE]
    /\ received' = [v \in Viewers |-> <<>>]
    /\ snapAt' = [v \in Viewers |-> 0]
    /\ failedAt' = [v \in Viewers |-> 0]

\* main() / autoLook() up to the end of camera set-up (lines 185-190, 300-305).
\* PiCamera() raises when the camera is held or absent: the call then ends at
\* once and nothing of the run exists.
CallRun(m) ==
    \E ok \in BOOLEAN :
        IF ok /\ cameraOwner = "none"
        THEN /\ cameraOwner' = "run"
             /\ resolution' = <<WIDTH, HEIGHT>>
             /\ pc' = "wsServer"
             /\ events' = <<"camera">>
             /\ FreshRun(m)
        ELSE /\ pc' = IF pc = "start" THEN "idle" ELSE pc
             /\ UNCHANGED <<cameraVars, mode, scorelist, nowscore, events,
                            sent, threadVars, convVars, relayVars, viewerVars>>

\* An exception leaves the with block before the try: the camera is closed
\* and the call returns (no cleanup code runs).
AbortStartup ==
    /\ pc' = "idle" /\ mode' = "none"
    /\ cameraOwner' = "none"
    /\ UNCHANGED <<resolution, recording, recErr, scorelist, nowscore, events>>

\* Variant of lines 193-199 that starts serve_forever as soon as the server
\* exists.
MakeWebsocketServerStarts ==
    /\ pc = "wsServer"
    /\ websocket_thread' = "running"
    /\ pc' = "httpServer"
    /\ events' = Append(events, "wsServer")
    /\ UNCHANGED <<cameraVars, mode, scorelist, nowscore,
                   http_thread, broadcast_thread>>
    /\ UNCHANGED <<entry, webVars, chatVars, flagVars, sent, convVars, relayVars,
                   viewerVars, singleVars>>

\* Lines 193-199: make_server, initialize_websockets_manager, Thread(...).
MakeWebsocketServer ==
    /\ pc = "wsServer"
    /\ \E ok \in BOOLEAN :
        IF ok
        THEN /\ websocket_thread' = "created"
             /\ pc' = "httpServer"
             /\ events' = Append(events, "wsServer")
             /\ UNCHANGED <<cameraVars, mode, scorelist, nowscore,
                            http_thread, broadcast_thread>>
        ELSE /\ AbortStartup
             /\ UNCHANGED threadVars
    /\ UNCHANGED <<entry, webVars, chatVars, flagVars, sent, convVars, relayVars,
                   viewerVars, singleVars>>

\* Lines 201-202: StreamingHttpServer() reads index.html and jsmpg.js.
MakeHttpServer ==
    /\ pc = "httpServer"
    /\ \E ok \in BOOLEAN :
        IF ok
        THEN /\ http_thread' = "created"
             /\ pc' = "output"
             /\ events' = Append(events, "httpServer")
             /\ UNCHANGED <<cameraVars, mode, scorelist, nowscore,
                            websocket_thread, broadcast_thread>>
        ELSE /\ AbortStartup
             /\ UNCHANGED threadVars
    /\ UNCHANGED <<entry, webVars, chatVars, flagVars, sent, convVars, relayVars,
                   viewerVars, singleVars>>

\* Lines 204-205: BroadcastOutput(camera) spawns ffmpeg with camera.resolution;
\* BroadcastThread(output.converter, websocket_server).
MakeBroadcastOutput ==
    /\ pc = "output"
    /\ \E ok \in BOOLEAN :
        IF ok
        THEN /\ converter' = "running"
             /\ convSize' = resolution
             /\ broadcast_thread' = "created"
             /\ pc' = "startRec"
             /\ events' = Append(Append(events, "transcoder"), "relay")
             /\ UNCHANGED <<cameraVars, mode, scorelist, nowscore, convHangs,
                            websocket_thread, http_thread, stdinClosed, emitted, pipe>>
        ELSE /\ AbortStartup
             /\ UNCHANGED <<threadVars, convVars>>
    /\ UNCHANGED <<entry, webVars, chatVars, flagVars, sent, relayVars, viewerVars, singleVars>>

\* Line 207: camera.start_recording(output, 'yuv').
StartRecording ==
    /\ pc = "startRec"
    /\ recording' = TRUE
    /\ pc' = "wsStart"
    /\ events' = Append(events, "capture")
    /\ UNCHANGED <<entry, webVars, chatVars, flagVars, cameraOwner, resolution, recErr,
                   mode, scorelist, nowscore, sent, threadVars, convVars,
                   relayVars, viewerVars, singleVars>>

\* Line 210.
StartWebsocketThread ==
    /\ pc = "wsStart"
    /\ websocket_thread' = "running"
    /\ pc' = "httpStart"
    /\ events' = Append(events, "wsStart")
    /\ UNCHANGED <<entry, webVars, chatVars, flagVars, cameraVars, mode, scorelist,
                   nowscore, sent, http_thread, broadcast_thread, convVars,
                   relayVars, viewerVars, singleVars>>

\* Line 212.
StartHttpThread ==
    /\ pc = "httpStart"
    /\ http_thread' = "running"
    /\ pc' = "bcStart"
    /\ events' = Append(events, "httpStart")
    /\ UNCHANGED <<entry, webVars, chatVars, flagVars, cameraVars, mode, scorelist,
                   nowscore, sent, websocket_thread, broadcast_thread, convVars,
                   relayVars, viewerVars, singleVars>>

\* Variant of lines 214-221 in which the capture loop is entered without
\* broadcast_thread.start().
StartBroadcastThreadSkipped ==
    /\ pc = "bcStart"
    /\ pc' = "loopTop"
    /\ UNCHANGED <<entry, webVars, chatVars, flagVars, cameraVars, mode, scorelist,
                   nowscore, events, sent, threadVars, convVars, relayVars,
                   viewerVars, singleVars>>

\* Lines 214-221.
StartBroadcastThread ==
    /\ pc = "bcStart"
    /\ broadcast_thread' = "running"
    /\ pc' = "loopTop"
    /\ events' = Append(events, "bcStart")
    /\ UNCHANGED <<entry, webVars, chatVars, flagVars, cameraVars, mode, scorelist,
                   nowscore, sent, websocket_thread, http_thread, convVars,
                   relayVars, viewerVars, singleVars>>

\* --------------------------------------------------------- run: capture loop
\* An exception other than KeyboardInterrupt inside the try block: control
\* goes to the finally block and the exception propagates after it.
Raise ==
    pc' = "finally"

InRange(s) ==
    SCORE_THRESHOLD_UNDER * 10 < s /\ s < SCORE_THRESHOLD_UPPER * 10

\* Lines 223 and 334: while whileMove.
LoopTop ==
    /\ pc = "loopTop"
    /\ pc' = IF whileMove THEN "wait" ELSE "finally"
    /\ sent' = IF whileMove THEN <<>> ELSE sent
    /\ UNCHANGED <<entry, webVars, chatVars, flagVars, cameraVars, mode, scorelist,
                   nowscore, events, threadVars, convVars, relayVars, viewerVars,
                   singleVars>>

\* Lines 224-246 and 335-357: wait_recording(2) raises the error of a failed
\* write; the capture and the inference may fail; otherwise a score is known.
WaitCapture ==
    /\ pc = "wait"
    /\ \E ok \in BOOLEAN, s \in Scores :
        IF recErr \/ ~ok
        THEN /\ s = 50
             /\ (recErr => ok)
             /\ Raise
             /\ UNCHANGED nowscore
        ELSE /\ nowscore' = s
             /\ pc' = "act"
    /\ UNCHANGED <<entry, webVars, chatVars, flagVars, cameraVars, mode, scorelist, events,
                   sent, threadVars, convVars, relayVars, viewerVars, singleVars>>

\* Lines 248-251: scorecheck is False when the score moved 0.2 or more away
\* from a listed score.
ScoreCheck(list, s) ==
    \A i \in 1..Len(list) : list[i] - 2 < s /\ s < list[i] + 2

\* Lines 255-258.
NextScorelist(list, s) ==
    Append(IF 0 < Len(list) /\ Len(list) < 5 THEN Tail(list) ELSE list, s)

\* Variant of lines 248-275 whose watering notification does not test the
\* continue flag.
ActMainIgnoresStop ==
    /\ pc = "act" /\ mode = "main"
    /\ \E fail \in 0..2 :
        LET scorecheck == ScoreCheck(scorelist, nowscore)
            wantLook == scorecheck /\ look
            lookOk == wantLook /\ fail # 1
            wantWater == /\ scorecheck
                         /\ (wantLook => lookOk)
                         /\ InRange(nowscore)
            waterIdx == IF wantLook THEN 2 ELSE 1
            waterOk == wantWater /\ fail # waterIdx
            exc == (wantLook /\ ~lookOk) \/ (wantWater /\ ~waterOk)
        IN  /\ (fail # 0 => exc)
            /\ scorelist' = NextScorelist(scorelist, nowscore)
            /\ look' = IF lookOk THEN FALSE ELSE look
            /\ sent' = sent \o (IF lookOk THEN <<LOOK_COMMENT>> ELSE <<>>)
                            \o (IF waterOk THEN <<WATER_COMMENT>> ELSE <<>>)
            /\ pc' = IF exc THEN "finally" ELSE "loopTop"
    /\ nowscore' = 0
    /\ UNCHANGED <<entry, webVars, chatVars, whileMove, water, cameraVars, mode, events,
                   threadVars, convVars, relayVars, viewerVars, singleVars>>

\* Lines 248-275 of main: fail is the sendSlack call of this iteration that
\* raises (0: none).
ActMain ==
    /\ pc = "act" /\ mode = "main"
    /\ \E fail \in 0..2 :
        LET scorecheck == ScoreCheck(scorelist, nowscore)
            wantLook == scorecheck /\ look
            lookOk == wantLook /\ fail # 1
            wantWater == /\ scorecheck
                         /\ (wantLook => lookOk)
                         /\ whileMove
                         /\ InRange(nowscore)
            waterIdx == IF wantLook THEN 2 ELSE 1
            waterOk == wantWater /\ fail # waterIdx
            exc == (wantLook /\ ~lookOk) \/ (wantWater /\ ~waterOk)
        IN  /\ (fail # 0 => exc)
            /\ scorelist' = NextScorelist(scorelist, nowscore)
            /\ look' = IF lookOk THEN FALSE ELSE look
            /\ sent' = sent \o (IF lookOk THEN <<LOOK_COMMENT>> ELSE <<>>)
                            \o (IF waterOk THEN <<WATER_COMMENT>> ELSE <<>>)
            /\ pc' = IF exc THEN "finally" ELSE "loopTop"
    /\ nowscore' = 0
    /\ UNCHANGED <<entry, webVars, chatVars, whileMove, water, cameraVars, mode, events,
                   threadVars, convVars, relayVars, viewerVars, singleVars>>

\* Lines 359-380 of autoLook.
ActAutoLook ==
    /\ pc = "act" /\ mode = "autoLook"
    /\ \E fail \in BOOLEAN :
        LET wantNote == look \/ water
            comment == IF look THEN LOOK_COMMENT
                       ELSE IF InRange(nowscore) THEN WATER_COMMENT
                       ELSE NOT_WATER_COMMENT
            exc == wantNote /\ fail
        IN  /\ (fail => wantNote)
            /\ look' = IF look /\ ~exc THEN FALSE ELSE look
            /\ water' = IF ~look /\ water /\ ~exc THEN FALSE ELSE water
            /\ sent' = IF wantNote /\ ~exc THEN Append(sent, comment) ELSE sent
            /\ pc' = IF exc THEN "finally" ELSE "loopTop"
    /\ nowscore' = 0
    /\ UNCHANGED <<entry, webVars, chatVars, whileMove, cameraVars, mode, scorelist, events,
                   threadVars, convVars, relayVars, viewerVars, singleVars>>

\* Lines 279-280: a KeyboardInterrupt reaches main() only when it runs on the
\* main thread (python server.py); it is caught and the finally block runs.
KeyboardInterrupt ==
    /\ entry = "script"
    /\ pc \in {"wsStart", "httpStart", "bcStart", "loopTop", "wait", "act"}
    /\ pc' = "finally"
    /\ UNCHANGED <<entry, webVars, chatVars, flagVars, cameraVars, mode, scorelist,
                   nowscore, events, sent, threadVars, convVars, relayVars,
                   viewerVars, singleVars>>

\* The with block is left: the camera is closed, the call returns and its
\* local variables are gone.
ExitRun ==
    /\ pc' = "idle" /\ mode' = "none"
    /\ cameraOwner' = "none"
    /\ recording' = FALSE
    /\ scorelist' = <<>> /\ nowscore' = 0 /\ sent' = <<>>
    /\ UNCHANGED <<resolution, recErr>>

\* Variant of the finally block that goes to the server shutdowns without
\* stopping the recording first.
FinallySkipsStop ==
    /\ pc = "finally"
    /\ whileMove' = TRUE
    /\ pc' = "httpShutdown"
    /\ events' = Append(events, "finally")
    /\ UNCHANGED <<entry, webVars, chatVars, water, look, cameraVars, mode, scorelist,
                   nowscore, sent, threadVars, convVars, relayVars, viewerVars,
                   singleVars>>

\* Lines 282-283 and 389-390.
Finally ==
    /\ pc = "finally"
    /\ whileMove' = TRUE
    /\ pc' = "stopRec"
    /\ events' = Append(events, "finally")
    /\ UNCHANGED <<entry, webVars, chatVars, water, look, cameraVars, mode, scorelist,
                   nowscore, sent, threadVars, convVars, relayVars, viewerVars,
                   singleVars>>

\* Line 284: camera.stop_recording() first stops the encoder ...
StopRecording ==
    /\ pc = "stopRec"
    /\ recording' = FALSE
    /\ pc' = "flushClose"
    /\ events' = Append(events, "stopCapture")
    /\ UNCHANGED <<entry, webVars, chatVars, flagVars, cameraOwner, resolution, recErr, mode,
                   scorelist, nowscore, sent, threadVars, convVars,
                   relayVars, viewerVars, singleVars>>

\* ... then calls output.flush(): line 129, converter.stdin.close() ...
\* Whether this ffmpeg will exit at the end of its input is fixed here.
FlushClose ==
    /\ pc = "flushClose"
    /\ stdinClosed' = TRUE
    /\ \E hangs \in BOOLEAN :
        /\ hangs => converter = "running"
        /\ convHangs' = hangs
    /\ pc' = "flushWait"
    /\ events' = Append(events, "stdinClose")
    /\ UNCHANGED <<entry, webVars, chatVars, flagVars, cameraVars, mode, scorelist,
                   nowscore, sent, threadVars, converter, convSize,
                   emitted, pipe, relayVars, viewerVars, singleVars>>

\* ... and line 130, converter.wait(), which returns when ffmpeg has exited.
\* stop_recording() then raises the error met while recording, if any, and
\* the rest of the finally block is skipped.
FlushWait ==
    /\ pc = "flushWait"
    /\ converter = "exited"
    /\ events' = Append(events, "convWait")
    /\ IF recErr
       THEN ExitRun
       ELSE /\ pc' = "bcJoin"
            /\ UNCHANGED <<cameraVars, mode, scorelist, nowscore, sent>>
    /\ UNCHANGED <<entry, webVars, chatVars, flagVars, threadVars, convVars, relayVars,
                   viewerVars, singleVars>>

\* Line 286: broadcast_thread.join() raises RuntimeError on a thread that was
\* never started and otherwise returns when the thread has finished.
JoinBroadcast ==
    /\ pc = "bcJoin"
    /\ broadcast_thread \in {"created", "finished"}
    /\ IF broadcast_thread = "created"
       THEN /\ ExitRun
            /\ UNCHANGED events
       ELSE /\ pc' = "httpShutdown"
            /\ events' = Append(events, "bcJoin")
            /\ UNCHANGED <<cameraVars, mode, scorelist, nowscore, sent>>
    /\ UNCHANGED <<entry, webVars, chatVars, flagVars, threadVars, convVars, relayVars,
                   viewerVars, singleVars>>

\* Line 288: http_server.shutdown() returns once serve_forever() has ended;
\* it never returns when serve_forever() was never started.
ShutdownHttp ==
    /\ pc = "httpShutdown"
    /\ http_thread = "running"
    /\ http_thread' = "finished"
    /\ pc' = "wsShutdown"
    /\ events' = Append(events, "httpShutdown")
    /\ UNCHANGED <<entry, webVars, chatVars, flagVars, cameraVars, mode, scorelist,
                   nowscore, sent, websocket_thread, broadcast_thread, convVars,
                   relayVars, viewerVars, singleVars>>

\* Line 290: websocket_server.shutdown(); serve_forever() ends after the
\* request it is handling.
ShutdownWebsocket ==
    /\ pc = "wsShutdown"
    /\ websocket_thread = "running"
    /\ \A v \in Viewers : vstate[v] \notin {"accepted", "opened"}
    /\ websocket_thread' = "finished"
    /\ pc' = "httpJoin"
    /\ events' = Append(events, "wsShutdown")
    /\ UNCHANGED <<entry, webVars, chatVars, flagVars, cameraVars, mode, scorelist,
                   nowscore, sent, http_thread, broadcast_thread, convVars,
                   relayVars, viewerVars, singleVars>>

\* Line 292: http_thread.join().
JoinHttp ==
    /\ pc = "httpJoin"
    /\ http_thread = "finished"
    /\ pc' = "wsJoin"
    /\ events' = Append(events, "httpJoin")
    /\ UNCHANGED <<entry, webVars, chatVars, flagVars, cameraVars, mode, scorelist,
                   nowscore, sent, threadVars, convVars, relayVars, viewerVars,
                   singleVars>>

\* Line 294: websocket_thread.join(); then the with block closes the camera.
JoinWebsocket ==
    /\ pc = "wsJoin"
    /\ websocket_thread = "finished"
    /\ events' = Append(events, "wsJoin")
    /\ ExitRun
    /\ UNCHANGED <<entry, webVars, chatVars, flagVars, threadVars, convVars, relayVars,
                   viewerVars, singleVars>>

\* ------------------------------------------------------- transcoder (ffmpeg)
\* Chunks ffmpeg emits in one run of the model.
ChunkLimit == IF entry = "bot" THEN MaxBotChunks ELSE MaxChunks

\* ffmpeg writes the next chunk of MPEG1 video to its stdout.
ConverterEmit ==
    /\ converter = "running"
    /\ recording \/ stdinClosed
    /\ emitted < ChunkLimit
    /\ emitted' = emitted + 1
    /\ pipe' = Append(pipe, emitted + 1)
    /\ UNCHANGED <<entry, webVars, chatVars, flagVars, cameraVars, runVars, sent,
                   threadVars, converter, convHangs, convSize, stdinClosed,
                   relayVars, viewerVars, singleVars>>

\* ffmpeg sees end of input (line 129 closed its stdin) and closes its stdout.
ConverterEndOfInput ==
    /\ converter = "running"
    /\ stdinClosed /\ ~convHangs
    /\ converter' = "eof"
    /\ UNCHANGED <<entry, webVars, chatVars, flagVars, cameraVars, runVars, sent,
                   threadVars, convHangs, convSize, stdinClosed, emitted, pipe,
                   relayVars, viewerVars, singleVars>>

\* ffmpeg dies on its own while the run goes on.
ConverterDies ==
    /\ converter = "running"
    /\ ~stdinClosed
    /\ converter' = "eof"
    /\ UNCHANGED <<entry, webVars, chatVars, flagVars, cameraVars, runVars, sent,
                   threadVars, convHangs, convSize, stdinClosed, emitted, pipe,
                   relayVars, viewerVars, singleVars>>

\* The process is gone: converter.poll() is no longer None.
ConverterExit ==
    /\ converter = "eof"
    /\ converter' = "exited"
    /\ UNCHANGED <<entry, webVars, chatVars, flagVars, cameraVars, runVars, sent,
                   threadVars, convHangs, convSize, stdinClosed, emitted, pipe,
                   relayVars, viewerVars, singleVars>>

\* Lines 124-125: BroadcastOutput.write on a dead ffmpeg raises (broken pipe);
\* picamera keeps the error for wait_recording / stop_recording.
WriteFails ==
    /\ recording /\ converter = "exited"
    /\ ~recErr
    /\ recErr' = TRUE
    /\ UNCHANGED <<entry, webVars, chatVars, flagVars, cameraOwner, resolution, recording,
                   runVars, sent, threadVars, convVars, relayVars, viewerVars,
                   singleVars>>

\* ------------------------------------------------------ BroadcastThread.run
\* Line 142: read1 returns the next chunk, or b'' at end of stream, and
\* blocks while ffmpeg is alive and has written nothing.
RelayRead ==
    /\ broadcast_thread = "running" /\ rpc = "read"
    /\ IF pipe # <<>>
       THEN /\ buf' = Head(pipe)
            /\ pipe' = Tail(pipe)
            /\ readLog' = Append(readLog, Head(pipe))
            /\ rpc' = "bcast"
       ELSE /\ converter \in {"eof", "exited"}
            /\ buf' = 0
            /\ rpc' = "poll"
            /\ UNCHANGED <<pipe, readLog>>
    /\ UNCHANGED <<entry, webVars, chatVars, flagVars, cameraVars, runVars, sent,
                   threadVars, converter, convHangs, convSize, stdinClosed,
                   emitted, todo, stdoutClosed, viewerVars, singleVars>>

\* Variant: run() leaves its loop after an empty read while ffmpeg is alive.
RelayPollExitsOnEmpty ==
    /\ broadcast_thread = "running" /\ rpc = "poll"
    /\ stdoutClosed' = TRUE
    /\ broadcast_thread' = "finished"
    /\ UNCHANGED <<entry, webVars, chatVars, flagVars, cameraVars, runVars, sent,
                   websocket_thread, http_thread, convVars, rpc, buf, todo,
                   readLog, viewerVars, singleVars>>

\* Variant: the loop of run() goes on after an empty read although ffmpeg
\* has exited.
RelayPollIgnoresExit ==
    /\ broadcast_thread = "running" /\ rpc = "poll"
    /\ rpc' = "read"
    /\ UNCHANGED <<entry, webVars, chatVars, flagVars, cameraVars, runVars, sent,
                   threadVars, convVars, buf, todo, readLog, stdoutClosed,
                   viewerVars, singleVars>>

\* Lines 145-148: after an empty read, leave the loop when ffmpeg has exited;
\* the finally clause closes converter.stdout and the thread ends.
RelayPoll ==
    /\ broadcast_thread = "running" /\ rpc = "poll"
    /\ IF converter = "exited"
       THEN /\ stdoutClosed' = TRUE
            /\ broadcast_thread' = "finished"
            /\ UNCHANGED rpc
       ELSE /\ rpc' = "read"
            /\ UNCHANGED <<stdoutClosed, broadcast_thread>>
    /\ UNCHANGED <<entry, webVars, chatVars, flagVars, cameraVars, runVars, sent,
                   websocket_thread, http_thread, convVars, buf, todo, readLog,
                   viewerVars, singleVars>>

\* Lines 140-148: an exception raised by read1 or by manager.broadcast leaves
\* the loop; the finally clause closes converter.stdout and the thread ends.
RelayRaises ==
    /\ broadcast_thread = "running" /\ rpc \in {"read", "bcast"}
    /\ stdoutClosed' = TRUE
    /\ broadcast_thread' = "finished"
    /\ UNCHANGED <<entry, webVars, chatVars, flagVars, cameraVars, runVars, sent,
                   websocket_thread, http_thread, convVars, rpc, buf, todo,
                   readLog, viewerVars, singleVars>>

\* Variant: the broadcast misses the websocket registered first.
RelayBroadcastSkipsFirst ==
    /\ broadcast_thread = "running" /\ rpc = "bcast"
    /\ websockets # <<>>
    /\ todo' = Tail(websockets)
    /\ rpc' = IF Tail(websockets) = <<>> THEN "read" ELSE "send"
    /\ UNCHANGED <<entry, webVars, chatVars, flagVars, cameraVars, runVars, sent,
                   threadVars, convVars, buf, readLog, stdoutClosed, viewerVars,
                   singleVars>>

\* Line 144: manager.broadcast(buf) copies the registry under its lock.
RelayBroadcast ==
    /\ broadcast_thread = "running" /\ rpc = "bcast"
    /\ todo' = websockets
    /\ rpc' = IF websockets = <<>> THEN "read" ELSE "send"
    /\ UNCHANGED <<entry, webVars, chatVars, flagVars, cameraVars, runVars, sent,
                   threadVars, convVars, buf, readLog, stdoutClosed, viewerVars,
                   singleVars>>

\* -------------------------------------------------------------- single()
\* Lines 403-413: single() opens the camera; PiCamera() raises when the
\* camera is held or absent.
CallSingle ==
    /\ singleCalled' = TRUE
    /\ \E ok \in BOOLEAN :
        IF ok /\ cameraOwner = "none"
        THEN /\ cameraOwner' = "single"
             /\ resolution' = <<WIDTH, HEIGHT>>
             /\ spc' = "capture"
             /\ sClears' = 0
             /\ sent' = <<>>
        ELSE UNCHANGED <<cameraOwner, resolution, spc, sClears, sent>>

\* Lines 415-439: capture and inference; an error leaves the with block.
SingleCapture ==
    /\ spc = "capture"
    /\ \E ok \in BOOLEAN :
        IF ok
        THEN /\ spc' = "notify"
             /\ UNCHANGED cameraOwner
        ELSE /\ spc' = "idle"
             /\ cameraOwner' = "none"
    /\ UNCHANGED <<entry, webVars, chatVars, flagVars, resolution, recording, recErr,
                   runVars, sent, threadVars, convVars, relayVars, viewerVars,
                   sClears, singleCalled>>

\* Lines 441-455; s is np.mean(score_mean) in tenths, fail a raising sendSlack.
SingleNotify ==
    /\ spc = "notify"
    /\ \E s \in Scores, fail \in BOOLEAN :
        LET wantNote == look \/ water
            comment == IF look THEN LOOK_COMMENT
                       ELSE IF InRange(s) THEN WATER_COMMENT
                       ELSE NOT_WATER_COMMENT
            exc == wantNote /\ fail
            clears == ~look /\ water /\ ~exc
        IN  /\ (fail => wantNote)
            /\ (look \/ ~water \/ exc => s = 50)
            /\ look' = IF look /\ ~exc THEN FALSE ELSE look
            /\ water' = IF clears THEN FALSE ELSE water
            /\ sClears' = IF clears THEN sClears + 1 ELSE sClears
            /\ sent' = IF wantNote /\ ~exc THEN Append(sent, comment) ELSE sent
            /\ spc' = IF exc THEN "idle" ELSE "sleep"
            /\ cameraOwner' = IF exc THEN "none" ELSE cameraOwner
    /\ UNCHANGED <<entry, webVars, chatVars, whileMove, resolution, recording, recErr,
                   runVars, threadVars, convVars, relayVars, viewerVars,
                   singleCalled>>

\* Lines 457-465: sleep, GPIO reset, 'Finish'; the with block closes the camera.
SingleFinish ==
    /\ spc = "sleep"
    /\ spc' = "idle"
    /\ cameraOwner' = "none"
    /\ sent' = <<>>
    /\ UNCHANGED <<entry, webVars, chatVars, flagVars, resolution, recording, recErr,
                   runVars, threadVars, convVars, relayVars, viewerVars,
                   sClears, singleCalled>>

\* ------------------------------------------------------- slackbot_plugin.py
\* Variant of lines 10-21 in which an accepted start sets the continue flag.
monitoringWaterSetsFlag ==
    /\ entry = "bot"
    /\ IF waterWork \/ notWaterWork
       THEN UNCHANGED <<waterWork, whileMove, cameraVars, runVars, sent,
                        threadVars, convVars, relayVars, viewerVars>>
       ELSE /\ waterWork' = TRUE
            /\ whileMove' = TRUE
            /\ CallRun("main")
    /\ UNCHANGED <<entry, webVars, notWaterWork, water, look, singleVars>>

\* Lines 10-21. The handler's thread stays inside server.main() for the run.
monitoringWater ==
    /\ entry = "bot"
    /\ IF waterWork \/ notWaterWork
       THEN UNCHANGED <<waterWork, cameraVars, runVars, sent, threadVars,
                        convVars, relayVars, viewerVars>>
       ELSE /\ waterWork' = TRUE
            /\ CallRun("main")
    /\ UNCHANGED <<entry, webVars, notWaterWork, flagVars, singleVars>>

\* Lines 26-37.
monitoringNotWater ==
    /\ entry = "bot"
    /\ IF waterWork \/ notWaterWork
       THEN UNCHANGED <<notWaterWork, cameraVars, runVars, sent, threadVars,
                        convVars, relayVars, viewerVars>>
       ELSE /\ notWaterWork' = TRUE
            /\ CallRun("autoLook")
    /\ UNCHANGED <<entry, webVars, waterWork, flagVars, singleVars>>

\* Lines 42-55 (server.setWhileMove, lines 489-491).
monitoringFinish ==
    /\ entry = "bot"
    /\ IF waterWork
       THEN /\ waterWork' = FALSE
            /\ whileMove' = FALSE
            /\ UNCHANGED notWaterWork
       ELSE IF notWaterWork
       THEN /\ notWaterWork' = FALSE
            /\ whileMove' = FALSE
            /\ UNCHANGED waterWork
       ELSE UNCHANGED <<chatVars, whileMove>>
    /\ UNCHANGED <<entry, webVars, water, look, cameraVars, runVars, sent, threadVars,
                   convVars, relayVars, viewerVars, singleVars>>

\* Lines 60-72 (server.setWater, lines 479-481).
plugin_water ==
    /\ entry = "bot"
    /\ IF waterWork
       THEN UNCHANGED <<water, cameraOwner, resolution, singleVars, sent>>
       ELSE /\ water' = TRUE
            /\ IF notWaterWork
               THEN UNCHANGED <<cameraOwner, resolution, singleVars, sent>>
               ELSE CallSingle
    /\ UNCHANGED <<entry, webVars, chatVars, whileMove, look, recording, recErr, runVars,
                   threadVars, convVars, relayVars, viewerVars>>

\* Lines 77-88 (server.setLook, lines 484-486): the first if has no else, so
\* with waterWork set the last else branch runs as well.
plugin_check ==
    /\ entry = "bot"
    /\ look' = TRUE
    /\ IF notWaterWork
       THEN UNCHANGED <<cameraOwner, resolution, singleVars, sent>>
       ELSE CallSingle
    /\ UNCHANGED <<entry, webVars, chatVars, whileMove, water, recording, recErr, runVars,
                   threadVars, convVars, relayVars, viewerVars>>

\* Lines 508-509: python server.py calls main() once.
ScriptMain ==
    /\ entry = "script" /\ pc = "start"
    /\ CallRun("main")
    /\ UNCHANGED <<entry, webVars, chatVars, flagVars, singleVars>>

\* ------------------------------------------------- viewers (StreamingWebSocket)
\* Line 47: Struct('>4sHH').pack: the magic, then two big-endian 16-bit fields.
Pack(magic, w, h) ==
    magic \o <<w \div 256, w % 256, h \div 256, h % 256>>

\* What a browser reads back from the 8 bytes.
Unpack(bytes) ==
    [magic |-> SubSeq(bytes, 1, 4),
     width |-> bytes[5] * 256 + bytes[6],
     height |-> bytes[7] * 256 + bytes[8]]

\* A binary websocket message.
Message(data) == [binary |-> TRUE, data |-> data]

\* Variant: the websocket is put into the registry as soon as it is accepted,
\* before opened() has sent the header.
ViewerConnectRegisters(v) ==
    /\ websocket_thread = "running"
    /\ vstate[v] = "absent"
    /\ v > 1 => vstate[v - 1] # "absent"
    /\ \A u \in Viewers : vstate[u] \notin {"accepted", "opened"}
    /\ vstate' = [vstate EXCEPT ![v] = "accepted"]
    /\ websockets' = Append(websockets, v)
    /\ UNCHANGED <<entry, webVars, chatVars, flagVars, cameraVars, runVars, sent,
                   threadVars, convVars, relayVars, sockBroken,
                   received, snapAt, failedAt, singleVars>>

\* serve_forever() accepts a connection and upgrades it to a websocket; it
\* handles one request at a time. Viewers are numbered in the order they
\* connect.
ViewerConnect(v) ==
    /\ websocket_thread = "running"
    /\ vstate[v] = "absent"
    /\ v > 1 => vstate[v - 1] # "absent"
    /\ \A u \in Viewers : vstate[u] \notin {"accepted", "opened"}
    /\ vstate' = [vstate EXCEPT ![v] = "accepted"]
    /\ UNCHANGED <<entry, webVars, chatVars, flagVars, cameraVars, runVars, sent,
                   threadVars, convVars, relayVars, websockets, sockBroken,
                   received, snapAt, failedAt, singleVars>>

\* Lines 103-104: the manager calls opened() first, which sends the header;
\* a send on a closed socket raises and the websocket is never registered.
ViewerOpened(v) ==
    /\ vstate[v] = "accepted"
    /\ IF sockBroken[v]
       THEN /\ vstate' = [vstate EXCEPT ![v] = "removed"]
            /\ UNCHANGED received
       ELSE /\ vstate' = [vstate EXCEPT ![v] = "opened"]
            /\ received' = [received EXCEPT ![v] =
                   Append(@, Message(Pack(JSMPEG_MAGIC, WIDTH, HEIGHT)))]
    /\ UNCHANGED <<entry, webVars, chatVars, flagVars, cameraVars, runVars, sent,
                   threadVars, convVars, relayVars, websockets, sockBroken,
                   snapAt, failedAt, singleVars>>

\* After opened() the manager puts the websocket into its registry.
ViewerRegister(v) ==
    /\ vstate[v] = "opened"
    /\ vstate' = [vstate EXCEPT ![v] = "registered"]
    /\ websockets' = Append(websockets, v)
    /\ snapAt' = [snapAt EXCEPT ![v] =
           IF rpc = "bcast" THEN Len(readLog) - 1 ELSE Len(readLog)]
    /\ UNCHANGED <<entry, webVars, chatVars, flagVars, cameraVars, runVars, sent,
                   threadVars, convVars, relayVars, sockBroken, received,
                   failedAt, singleVars>>

\* The browser stays connected and stops reading: the socket's send buffer
\* fills up, and a send on it (ws4py uses sendall on a socket without a
\* timeout) does not return while that lasts.
ViewerStall(v) ==
    /\ vstate[v] = "registered"
    /\ ~sockBroken[v]
    /\ vstate' = [vstate EXCEPT ![v] = "stalled"]
    /\ UNCHANGED <<entry, webVars, chatVars, flagVars, cameraVars, runVars, sent,
                   threadVars, convVars, relayVars, websockets, sockBroken,
                   received, snapAt, failedAt, singleVars>>

\* The browser goes away: the socket is closed by the peer.
ViewerBreak(v) ==
    /\ vstate[v] \in {"accepted", "opened", "registered", "stalled"}
    /\ ~sockBroken[v]
    /\ sockBroken' = [sockBroken EXCEPT ![v] = TRUE]
    /\ UNCHANGED <<entry, webVars, chatVars, flagVars, cameraVars, runVars, sent,
                   threadVars, convVars, relayVars, websockets, vstate,
                   received, snapAt, failedAt, singleVars>>

Remove(seq, v) ==
    SelectSeq(seq, LAMBDA x : x # v)

\* The manager's own thread finds the closed socket, terminates the
\* websocket and drops it from the registry; the object is gone.
ManagerRemove(v) ==
    /\ vstate[v] \in {"registered", "stalled"}
    /\ sockBroken[v]
    /\ vstate' = [vstate EXCEPT ![v] = "removed"]
    /\ websockets' = Remove(websockets, v)
    /\ received' = [received EXCEPT ![v] = <<>>]
    /\ snapAt' = [snapAt EXCEPT ![v] = 0]
    /\ failedAt' = [failedAt EXCEPT ![v] = 0]
    /\ UNCHANGED <<entry, webVars, chatVars, flagVars, cameraVars, runVars, sent,
                   threadVars, convVars, relayVars, sockBroken, singleVars>>

\* Variant: a send that raises is not caught, the exception leaves run()
\* through its finally clause and the thread ends.
RelaySendRaises ==
    /\ broadcast_thread = "running" /\ rpc = "send"
    /\ todo # <<>>
    /\ vstate[Head(todo)] = "stalled" => sockBroken[Head(todo)]
    /\ LET v == Head(todo)
       IN  IF vstate[v] = "removed"
           THEN /\ todo' = Tail(todo)
                /\ rpc' = IF Tail(todo) = <<>> THEN "read" ELSE "send"
                /\ UNCHANGED <<received, failedAt, stdoutClosed, broadcast_thread>>
           ELSE IF sockBroken[v]
           THEN /\ failedAt' = [failedAt EXCEPT ![v] = IF @ = 0 THEN buf ELSE @]
                /\ stdoutClosed' = TRUE
                /\ broadcast_thread' = "finished"
                /\ UNCHANGED <<received, todo, rpc>>
           ELSE /\ received' = [received EXCEPT ![v] = Append(@, Message(<<buf>>))]
                /\ todo' = Tail(todo)
                /\ rpc' = IF Tail(todo) = <<>> THEN "read" ELSE "send"
                /\ UNCHANGED <<failedAt, stdoutClosed, broadcast_thread>>
    /\ UNCHANGED <<entry, webVars, chatVars, flagVars, cameraVars, runVars, sent,
                   websocket_thread, http_thread, convVars, buf, readLog,
                   websockets, vstate, sockBroken, snapAt, singleVars>>

\* Line 144, inside manager.broadcast: the next websocket of the snapshot is
\* skipped when terminated; otherwise buf is sent, and a send that raises is
\* ignored. The send to a stalled websocket blocks until its peer is gone.
RelaySend ==
    /\ broadcast_thread = "running" /\ rpc = "send"
    /\ todo # <<>>
    /\ vstate[Head(todo)] = "stalled" => sockBroken[Head(todo)]
    /\ LET v == Head(todo)
       IN  IF vstate[v] = "removed"
           THEN UNCHANGED <<received, failedAt>>
           ELSE IF sockBroken[v]
           THEN /\ failedAt' = [failedAt EXCEPT ![v] = IF @ = 0 THEN buf ELSE @]
                /\ UNCHANGED received
           ELSE /\ received' = [received EXCEPT ![v] = Append(@, Message(<<buf>>))]
                /\ UNCHANGED failedAt
    /\ todo' = Tail(todo)
    /\ rpc' = IF Tail(todo) = <<>> THEN "read" ELSE "send"
    /\ UNCHANGED <<entry, webVars, chatVars, flagVars, cameraVars, runVars, sent,
                   threadVars, convVars, buf, readLog, stdoutClosed, websockets,
                   vstate, sockBroken, snapAt, singleVars>>

\* ------------------------------------------------- StreamingHttpHandler
\* Characters of the two files: 'A', e-acute and hiragana A, which take one,
\* two and three bytes in UTF-8.
Chars == {65, 233, 12354}

\* index.html as string.Template sees it: literal characters and the
\* placeholders $WIDTH and $HEIGHT.
Items == [lit : Chars] \cup [var : {"WIDTH", "HEIGHT"}]

SeqsUpTo(S, n) == UNION {[1..k -> S] : k \in 0..n}

Paths == {"/", "/index.html", "/jsmpg.js", "/missing"}
Times == 1..MaxTime

\* str(n) for n >= 0, as code points.
RECURSIVE Digits(_)
Digits(n) ==
    IF n < 10 THEN <<48 + n>> ELSE Append(Digits(n \div 10), 48 + (n % 10))

\* The UTF-8 bytes of one code point below 65536.
Utf8(cp) ==
    IF cp < 128 THEN <<cp>>
    ELSE IF cp < 2048 THEN <<192 + (cp \div 64), 128 + (cp % 64)>>
    ELSE <<224 + (cp \div 4096), 128 + ((cp \div 64) % 64), 128 + (cp % 64)>>

\* str.encode('utf-8').
RECURSIVE Encode(_)
Encode(text) ==
    IF text = <<>> THEN <<>> ELSE Utf8(Head(text)) \o Encode(Tail(text))

\* Lines 76-78: Template(...).safe_substitute(dict(WIDTH=WIDTH, HEIGHT=HEIGHT, ...)).
RECURSIVE safe_substitute(_)
safe_substitute(tpl) ==
    IF tpl = <<>> THEN <<>>
    ELSE LET item == Head(tpl)
             text == IF "lit" \in DOMAIN item THEN <<item.lit>>
                     ELSE Digits(IF item.var = "WIDTH" THEN WIDTH ELSE HEIGHT)
         IN  text \o safe_substitute(Tail(tpl))

\* send_response(code): the status line and the Server and Date headers.
send_response(t) == ("Server" :> "BaseHTTP") @@ ("Date" :> t)

\* The page send_error(code, ...) builds, which names the code.
ErrorBody(code) == Encode(Digits(code))

\* Variant of do_GET whose Content-Length is the number of characters of
\* the page.
do_GET_CharLength(path, command, t) ==
    IF path = "/"
    THEN [path |-> path, command |-> command, time |-> t,
          status |-> 301,
          headers |-> send_response(t) @@ ("Location" :> "/index.html"),
          body |-> <<>>]
    ELSE IF path \in {"/jsmpg.js", "/index.html"}
    THEN LET content_type == IF path = "/jsmpg.js"
                             THEN "application/javascript"
                             ELSE "text/html; charset=utf-8"
             text == IF path = "/jsmpg.js" THEN jsmpg_content
                     ELSE safe_substitute(index_template)
         IN  [path |-> path, command |-> command, time |-> t,
              status |-> 200,
              headers |-> send_response(t)
                          @@ ("Content-Type" :> content_type)
                          @@ ("Content-Length" :> Len(text))
                          @@ ("Last-Modified" :> t),
              body |-> IF command = "GET" THEN Encode(text) ELSE <<>>]
    ELSE [path |-> path, command |-> command, time |-> t,
          status |-> 404,
          headers |-> send_response(t)
                      @@ ("Content-Type" :> "text/html;charset=utf-8")
                      @@ ("Content-Length" :> Len(ErrorBody(404)))
                      @@ ("Connection" :> "close"),
          body |-> IF command # "HEAD" THEN ErrorBody(404) ELSE <<>>]

\* Lines 64-89, do_GET for a request of the given path and command at time
\* t: what is written to the client.
do_GET(path, command, t) ==
    IF path = "/"
    THEN [path |-> path, command |-> command, time |-> t,
          status |-> 301,
          headers |-> send_response(t) @@ ("Location" :> "/index.html"),
          body |-> <<>>]
    ELSE IF path \in {"/jsmpg.js", "/index.html"}
    THEN LET content_type == IF path = "/jsmpg.js"
                             THEN "application/javascript"
                             ELSE "text/html; charset=utf-8"
             content == Encode(IF path = "/jsmpg.js" THEN jsmpg_content
                               ELSE safe_substitute(index_template))
         IN  [path |-> path, command |-> command, time |-> t,
              status |-> 200,
              headers |-> send_response(t)
                          @@ ("Content-Type" :> content_type)
                          @@ ("Content-Length" :> Len(content))
                          @@ ("Last-Modified" :> t),
              body |-> IF command = "GET" THEN content ELSE <<>>]
    ELSE \* send_error(404, 'File not found')
         [path |-> path, command |-> command, time |-> t,
          status |-> 404,
          headers |-> send_response(t)
                      @@ ("Content-Type" :> "text/html;charset=utf-8")
                      @@ ("Content-Length" :> Len(ErrorBody(404)))
                      @@ ("Connection" :> "close"),
          body |-> IF command # "HEAD" THEN ErrorBody(404) ELSE <<>>]

\* A GET request is handled.
HandleGet ==
    /\ \E path \in Paths, t \in Times : response' = do_GET(path, "GET", t)
    /\ UNCHANGED <<entry, chatVars, flagVars, cameraVars, runVars, sent,
                   threadVars, convVars, relayVars, viewerVars, singleVars,
                   index_template, jsmpg_content>>

\* Lines 61-62: do_HEAD calls do_GET, self.command being 'HEAD'.
do_HEAD ==
    /\ \E path \in Paths, t \in Times : response' = do_GET(path, "HEAD", t)
    /\ UNCHANGED <<entry, chatVars, flagVars, cameraVars, runVars, sent,
                   threadVars, convVars, relayVars, viewerVars, singleVars,
                   index_template, jsmpg_content>>

\* ---------------------------------------------------------- specifications
\* Steps of a continuous run, of ffmpeg and of the broadcast thread.
RunNext ==
    \/ MakeWebsocketServer \/ MakeHttpServer \/ MakeBroadcastOutput
    \/ StartRecording
    \/ StartWebsocketThread \/ StartHttpThread \/ StartBroadcastThread
    \/ LoopTop \/ WaitCapture \/ ActMain
    \/ Finally \/ StopRecording \/ FlushClose \/ FlushWait
    \/ JoinBroadcast \/ ShutdownHttp \/ ShutdownWebsocket
    \/ JoinHttp \/ JoinWebsocket

PipeNext ==
    \/ ConverterEmit \/ ConverterEndOfInput \/ ConverterDies \/ ConverterExit
    \/ WriteFails
    \/ RelayRead \/ RelayPoll \/ RelayBroadcast

ChatNext ==
    \/ monitoringWater \/ monitoringNotWater \/ monitoringFinish
    \/ plugin_water \/ plugin_check

SingleNext ==
    \/ SingleCapture \/ SingleNotify \/ SingleFinish

ViewerNext ==
    \E v \in Viewers :
        \/ ViewerConnect(v) \/ ViewerOpened(v) \/ ViewerRegister(v)
        \/ ViewerBreak(v) \/ ManagerRemove(v)

\* The appliance driven by chat commands.
Next == ChatNext \/ RunNext \/ ActAutoLook \/ PipeNext \/ SingleNext

Spec == Init /\ [][Next]_vars

\* python server.py with browsers connecting to the websocket port; the
\* capture loop waits in wait_recording until it is interrupted.
StreamNext ==
    \/ ScriptMain \/ KeyboardInterrupt
    \/ MakeWebsocketServer \/ MakeHttpServer \/ MakeBroadcastOutput
    \/ StartRecording
    \/ StartWebsocketThread \/ StartHttpThread \/ StartBroadcastThread
    \/ LoopTop
    \/ Finally \/ StopRecording \/ FlushClose \/ FlushWait
    \/ JoinBroadcast \/ ShutdownHttp \/ ShutdownWebsocket
    \/ JoinHttp \/ JoinWebsocket
    \/ PipeNext \/ RelaySend \/ ViewerNext

StreamSpec == InitScript /\ [][StreamNext]_vars

\* The same with browsers that may stop reading; the broadcast thread runs
\* whenever it can.
StallNext ==
    \/ StreamNext
    \/ \E v \in Viewers : ViewerStall(v)

StallSpec ==
    /\ InitScript /\ [][StallNext]_vars
    /\ WF_vars(RelayRead \/ RelayPoll \/ RelayBroadcast \/ RelaySend)

\* The program's own steps are taken when they can be: the run's thread, the
\* broadcast thread and single() keep running; ffmpeg that is not hung ends
\* at the end of its input; the camera keeps writing frames. Chat commands,
\* browsers and a crash of ffmpeg come from outside and need not happen.
FairSpec ==
    /\ Spec
    /\ WF_vars(RunNext \/ ActAutoLook)
    /\ WF_vars(RelayRead \/ RelayPoll \/ RelayBroadcast)
    /\ WF_vars(SingleNext)
    /\ WF_vars(ConverterEndOfInput)
    /\ WF_vars(ConverterExit)
    /\ WF_vars(WriteFails)

\* python server.py with its capture loop and no browser: one run of main(),
\* the continue flag stays True; the program's own steps are taken when they
\* can be, an interrupt and a crash of ffmpeg need not happen.
ScriptNext ==
    \/ ScriptMain \/ KeyboardInterrupt
    \/ RunNext
    \/ PipeNext \/ RelayRaises

FairScriptSpec ==
    /\ InitScript /\ [][ScriptNext]_vars
    /\ WF_vars(RunNext)
    /\ WF_vars(RelayRead \/ RelayPoll \/ RelayBroadcast)
    /\ WF_vars(ConverterEndOfInput)
    /\ WF_vars(ConverterExit)
    /\ WF_vars(WriteFails)

\* The Page Server alone: StreamingHttpServer() has read the two files
\* (lines 92-99), whatever they hold, and requests are handled one by one.
InitHttp ==
    /\ InitCommon /\ entry = "script" /\ pc = "start"
    /\ index_template \in SeqsUpTo(Items, MaxContentLen)
    /\ jsmpg_content \in SeqsUpTo(Chars, MaxContentLen)
    /\ response = NoResponse

HttpNext == HandleGet \/ do_HEAD

HttpSpec == InitHttp /\ [][HttpNext]_vars

\* ------------------------------------------------------------------ helpers
Range(seq) == {seq[i] : i \in 1..Len(seq)}

\* Position of step e in the run's event list (0: it did not happen).
Pos(e) ==
    IF e \in Range(events)
    THEN CHOOSE i \in 1..Len(events) : events[i] = e
    ELSE 0

\* Step a happened, and before step b, whenever b happened.
Before(a, b) == Pos(b) > 0 => (Pos(a) > 0 /\ Pos(a) < Pos(b))

IsPrefix(a, b) == Len(a) <= Len(b) /\ a = SubSeq(b, 1, Len(a))

\* A websocket that is registered and whose peer is still there.
Connected(v) == vstate[v] = "registered" /\ ~sockBroken[v]

\* The chunk read last is still to be sent to v by the broadcast under way.
Pending(v) == rpc = "bcast" \/ (rpc = "send" /\ v \in Range(todo))

\* The payloads written to v's socket after the first message.
ChunkData(v) ==
    [i \in 1..(Len(received[v]) - 1) |-> received[v][i + 1].data]

\* Chunks snapAt[v]+1 .. n of the read log, as payloads.
ReadData(v, n) ==
    [i \in 1..(n - snapAt[v]) |-> <<readLog[snapAt[v] + i]>>]

\* -------------------------------------------------------------------- C1
\* C1: the chunks are read in the order ffmpeg wrote them, and a connected
\* viewer has received exactly the chunks read since it was registered
\* (all but the one the broadcast under way has still to send it), each
\* once, unmodified and in the order they were read.
C1_OrderPreserved ==
    /\ readLog = [i \in 1..Len(readLog) |-> i]
    /\ \A v \in Viewers :
        Connected(v) =>
            ChunkData(v) =
                ReadData(v, IF Pending(v) THEN Len(readLog) - 1 ELSE Len(readLog))

\* A viewer connected before the first chunk was read has received MaxChunks
\* chunks while another viewer was connected as well.
C1_Witness ==
    \E v \in Viewers, u \in Viewers :
        /\ u # v /\ Connected(u) /\ Connected(v)
        /\ snapAt[v] = 0
        /\ Len(readLog) >= 2
        /\ Len(received[v]) = Len(readLog) + 1
        /\ Len(received[u]) >= 2

\* -------------------------------------------------------------------- C2
\* C2: the first message on every viewer's socket is the 8-byte header
\* 'jsmp', width, height (big-endian 16 bit), with the width and height the
\* camera and ffmpeg were given; no later message is a header; and a
\* websocket is in the registry (where chunks are sent to) only after it.
C2_HandshakeFirst ==
    \A v \in Viewers :
        /\ v \in Range(websockets) => received[v] # <<>>
        /\ received[v] # <<>> =>
            /\ received[v][1].binary
            /\ Len(received[v][1].data) = 8
            /\ Unpack(received[v][1].data) =
                   [magic |-> JSMPEG_MAGIC,
                    width |-> convSize[1], height |-> convSize[2]]
            /\ convSize = resolution
            /\ \A i \in 2..Len(received[v]) :
                   /\ Len(received[v][i].data) = 1
                   /\ received[v][i].data[1] \in Range(readLog)

\* A viewer has the header and a chunk after it.
C2_Witness ==
    \E v \in Viewers :
        /\ Len(received[v]) >= 2
        /\ received[v][1].data = <<106, 115, 109, 112, 2, 128, 1, 224>>

\* -------------------------------------------------------------------- C3
\* C3: once a send to a viewer has raised, the broadcast thread still ends
\* only at the end of the stream (ffmpeg exited, nothing left unread), that
\* viewer gets nothing more, and every connected viewer registered before
\* that chunk has it (or is about to be sent it) and all later chunks.
C3_Isolation ==
    \A v \in Viewers :
        failedAt[v] > 0 =>
            /\ broadcast_thread = "finished" =>
                   converter = "exited" /\ pipe = <<>> /\ Len(readLog) = emitted
            /\ \A i \in 2..Len(received[v]) :
                   received[v][i].data[1] < failedAt[v]
            /\ \A u \in Viewers :
                   Connected(u) =>
                       \A k \in failedAt[v]..Len(readLog) :
                           k > snapAt[u] =>
                               \/ <<k>> \in Range(ChunkData(u))
                               \/ k = Len(readLog) /\ Pending(u)

\* A send to one viewer raised on chunk 1; another viewer has chunks 1 and 2.
C3_Witness ==
    \E v \in Viewers, u \in Viewers :
        /\ failedAt[v] = 1
        /\ Connected(u)
        /\ ChunkData(u) = <<<<1>>, <<2>>>>

\* -------------------------------------------------------------------- C4
Recording == pc \in {"loopTop", "wait", "act"}

\* C4: whenever the continue flag has been cleared while a run is Recording,
\* the system eventually is Idle with the broadcast, HTTP and websocket
\* threads ended and ffmpeg gone.
C4_StopReachesIdle ==
    (Recording /\ ~whileMove) ~>
        (/\ pc = "idle"
         /\ broadcast_thread = "finished"
         /\ http_thread = "finished"
         /\ websocket_thread = "finished"
         /\ converter = "exited")

\* -------------------------------------------------------------------- C5
CleanupSteps ==
    {"stopCapture", "stdinClose", "convWait", "bcJoin",
     "httpShutdown", "wsShutdown", "httpJoin", "wsJoin"}

\* C5: a run that has entered its finally block and has ended has executed
\* every cleanup step.
C5_AllCleanupStepsRun ==
    (pc = "idle" /\ "finally" \in Range(events)) => CleanupSteps \subseteq Range(events)

\* -------------------------------------------------------------------- C6
\* C6: a start command is accepted (its mode flag set, its run called) only
\* when no continuous run is in progress.
C6_StartOnlyWhenIdle ==
    [][((~waterWork /\ waterWork') \/ (~notWaterWork /\ notWaterWork'))
          => pc = "idle"]_vars

\* -------------------------------------------------------------------- C7
\* C7: a single() cycle that finds the water flag set and completes its
\* notification step leaves the flag False, cleared exactly once.
C7_SingleClearsWater ==
    [][(spc = "notify" /\ spc' = "sleep" /\ water)
          => (~water' /\ sClears' = 1)]_vars

\* -------------------------------------------------------------------- C8
\* C8: an intent flag that is set is eventually cleared, in every behaviour
\* whose ffmpeg exits when its stdin is closed.
C8_IntentFlagsCleared ==
    /\ look ~> (~look \/ convHangs)
    /\ water ~> (~water \/ convHangs)

\* -------------------------------------------------------------------- C9
\* The order of lines 185-214 (300-329).
StartOrder ==
    <<"camera", "wsServer", "httpServer", "transcoder", "relay", "capture",
      "wsStart", "httpStart", "bcStart">>

\* The steps of the run before its finally block.
StartupEvents ==
    IF "finally" \in Range(events)
    THEN SubSeq(events, 1, Pos("finally") - 1)
    ELSE events

DiedWhileRecording == Recording /\ converter = "exited" /\ ~stdinClosed

\* C11: when ffmpeg has exited on its own during Recording, the broadcast
\* thread eventually ends its loop and closes ffmpeg's stdout, and the run
\* eventually enters its finally block; no stop request is involved (the
\* continue flag is never cleared under python server.py).
C11_DeathEndsRun ==
    /\ DiedWhileRecording ~> (broadcast_thread = "finished" /\ stdoutClosed)
    /\ DiedWhileRecording ~> (pc = "finally" /\ whileMove)

\* The run enters its finally block because the write to the dead ffmpeg
\* failed, the broadcast thread having ended already.
C11_Witness ==
    /\ pc = "finally" /\ whileMove
    /\ converter = "exited" /\ ~stdinClosed
    /\ recErr
    /\ broadcast_thread = "finished" /\ stdoutClosed

\* ------------------------------------------------------------------- C12
\* C12: a run whose recording has not failed leaves the capture loop for its
\* finally block only at the loop test, with the continue flag cleared (no
\* interrupt reaches a run started by a chat command).
C12_IterationErrorContinues ==
    [][(Recording /\ ~recErr /\ pc' = "finally")
          => (pc = "loopTop" /\ ~whileMove)]_vars

\* ------------------------------------------------------------------- C13
\* The steps of a run before camera.start_recording.
BeforeCapture == {"start", "wsServer", "httpServer", "output", "startRec"}

Started(t) == t \in {"running", "finished"}

C14_RelayNotBlocked ==
    (rpc = "send") ~> (rpc # "send")

\* ------------------------------------------------------------------- C15
\* C15: a run of python server.py whose recording did not fail and that has
\* gone through its finally block (after an interrupt at any point from the
\* start of the threads on, or after the loop ended) has returned with
\* ffmpeg gone and none of its threads still running.
C15_InterruptStopsAll ==
    (pc = "idle" /\ "finally" \in Range(events) /\ ~recErr) =>
        /\ converter = "exited"
        /\ websocket_thread # "running"
        /\ http_thread # "running"
        /\ broadcast_thread # "running"

\* ------------------------------------------------------------------- C16
\* What a GET of the same path at the same time is answered.
GetResponse == do_GET(response.path, "GET", response.time)

HasHeader(name) == name \in DOMAIN response.headers

\* A HEAD request is answered with the status and headers of the GET and
\* without a body; a GET with the whole body.
HeadLikeGet ==
    /\ response.status = GetResponse.status
    /\ response.headers = GetResponse.headers
    /\ response.body = IF response.command = "HEAD" THEN <<>> ELSE GetResponse.body

\* C16 as stated: every response has a Content-Length equal to the byte
\* length of its body and a Last-Modified header, and HEAD is answered like
\* GET without the body.
C16_AllResponsesHaveHeaders ==
    response.status # 0 =>
        /\ HasHeader("Content-Length")
        /\ response.headers["Content-Length"] = Len(GetResponse.body)
        /\ HasHeader("Last-Modified")
        /\ HeadLikeGet

\* C16 as amended: the 200 responses for /index.html and /jsmpg.js have a
\* Content-Length equal to the number of bytes of the encoded page and a
\* Last-Modified header; the 404 has the Content-Length of the error page
\* and no Last-Modified; the 301 for / has a Location and neither of the
\* two; HEAD is answered like GET without the body.
C16_PageHeaders ==
    response.status # 0 =>
        /\ response.status =
              IF response.path = "/" THEN 301
              ELSE IF response.path \in {"/index.html", "/jsmpg.js"} THEN 200
              ELSE 404
        /\ response.status = 200 =>
              /\ HasHeader("Content-Length")
              /\ response.headers["Content-Length"] = Len(GetResponse.body)
              /\ GetResponse.body =
                    Encode(IF response.path = "/jsmpg.js" THEN jsmpg_content
                           ELSE safe_substitute(index_template))
              /\ HasHeader("Last-Modified")
        /\ response.status = 404 =>
              /\ HasHeader("Content-Length")
              /\ response.headers["Content-Length"] = Len(GetResponse.body)
              /\ ~HasHeader("Last-Modified")
        /\ response.status = 301 =>
              /\ response.headers["Location"] = "/index.html"
              /\ ~HasHeader("Content-Length")
              /\ ~HasHeader("Last-Modified")
              /\ GetResponse.body = <<>>
        /\ HeadLikeGet

\* A HEAD of /index.html whose page has fewer characters than bytes.
C16_Witness ==
    /\ response.status = 200
    /\ response.command = "HEAD" /\ response.path = "/index.html"
    /\ Len(safe_substitute(index_template)) = 4
    /\ response.headers["Content-Length"] = 5
    /\ response.body = <<>>

\* ------------------------------------------------------------------- C17
\* C17: the broadcast thread ends from its poll only after an empty read
\* with ffmpeg exited, and otherwise by an exception; either way stdout has
\* been closed. An empty read with ffmpeg alive is followed by the next
\* read, and a chunk read is handed to manager.broadcast, which takes all
\* registered websockets.
C17_RelayExit ==
    /\ [](broadcast_thread = "finished" => stdoutClosed)
    /\ [](stdoutClosed => broadcast_thread = "finished")
    /\ [][(broadcast_thread = "running" /\ broadcast_thread' = "finished"
               /\ rpc = "poll")
            => (buf = 0 /\ converter = "exited")]_vars
    /\ [][(broadcast_thread = "running" /\ rpc = "poll" /\ rpc' # "poll")
            => (/\ converter # "exited"
                /\ rpc' = "read"
                /\ broadcast_thread' = "running")]_vars
    /\ [][(readLog' # readLog)
            => (/\ rpc = "read" /\ rpc' = "bcast"
                /\ buf' # 0
                /\ readLog' = Append(readLog, buf'))]_vars
    /\ [][(rpc = "read" /\ rpc' = "poll") => (buf' = 0 /\ pipe = <<>>)]_vars
    /\ [][(rpc = "bcast" /\ rpc' # "bcast") => todo' = websockets]_vars

\* The loop has ended after two chunks and an empty read, ffmpeg having
\* exited on its own.
C17_Witness ==
    /\ broadcast_thread = "finished" /\ stdoutClosed
    /\ rpc = "poll" /\ buf = 0
    /\ converter = "exited" /\ ~stdinClosed
    /\ readLog = <<1, 2>>

\* ------------------------------------------------------------------- C18
Count(seq, x) == Cardinality({i \in 1..Len(seq) : seq[i] = x})

\* C18: in main, the loop test with the continue flag cleared leads to the
\* finally block and not into an iteration; the flag, once cleared, is set
\* again only by the finally block; and an iteration that reaches its
\* notifications with the flag cleared sends no WATER_COMMENT.
C18_CooperativeStop ==
    /\ [][(mode = "main" /\ pc = "loopTop" /\ ~whileMove /\ pc' # pc)
            => pc' = "finally"]_vars
    /\ [][(~whileMove /\ whileMove') => (pc = "finally" /\ pc' = "stopRec")]_vars
    /\ [][(mode = "main" /\ pc = "act" /\ ~whileMove /\ pc' # pc)
            => Count(sent', WATER_COMMENT) = Count(sent, WATER_COMMENT)]_vars

\* main has left its loop at the loop test with the flag cleared, after an
\* iteration whose score asked for watering and which sent nothing.
C18_Witness ==
    /\ mode = "main" /\ pc = "finally" /\ ~whileMove
    /\ Len(scorelist) = 1 /\ InRange(scorelist[1])
    /\ sent = <<>>

\* ------------------------------------------------------------------- C19
\* C19: a chat handler calls server.single() only while no continuous run
\* is in progress.
C19_SingleOnlyWhenIdle ==
    [][(~singleCalled /\ singleCalled') => (pc = "idle" /\ mode = "none")]_vars

\* ------------------------------------------------------------------- C20
\* C20: whenever no continuous run is in progress the continue flag is True.
C20_IdleFlagTrue ==
    (pc = "idle" /\ mode = "none") => whileMove

\* ------------------------------------------------------------------- C21
\* C21: the continue flag, once cleared, is set again only by the finally
\* block of the run in progress, whatever commands follow the stop; and a
\* run in its capture loop with the flag cleared reaches its finally block.
C21_StopNotLost ==
    /\ [][(~whileMove /\ whileMove')
            => (mode # "none" /\ pc = "finally" /\ pc' = "stopRec")]_vars
    /\ [][(~whileMove /\ Recording /\ pc' # pc)
            => (pc' \in {"wait", "act", "loopTop", "finally"} /\ ~whileMove')]_vars
    /\ (Recording /\ ~whileMove) ~> (pc = "finally" /\ ~whileMove)

\* The normal run was stopped, a start of the water-monitoring mode was
\* accepted after the stop, and the run has left its loop with the flag
\* still cleared.
C21_Witness ==
    /\ mode = "autoLook" /\ pc = "finally"
    /\ ~whileMove
    /\ waterWork /\ ~notWaterWork

\* ------------------------------------------------------------------- C22
\* C22: the two mode flags are never both True, and a mode flag that is
\* True has its run in progress: main for waterWork, autoLook for
\* notWaterWork.
C22_ModeFlagsTruthful ==
    /\ ~(waterWork /\ notWaterWork)
    /\ waterWork => mode = "main"
    /\ notWaterWork => mode = "autoLook"

====
